---- MODULE Spec2Model ----
(***************************************************************************)
(* The file handlers of api4: uploadFileStream with the two revisions of   *)
(* uploadFileMultipart found in the sources, and the retrieval handlers    *)
(* getFile, getFileThumbnail, getFilePreview, getFileInfo, getFileLink and *)
(* getPublicFile with writeFileResponse.                                   *)
(*                                                                         *)
(*   revision "streaming" : src/api4/file.go, uploadFileMultipart reads    *)
(*                          the multipart stream once, in order.           *)
(*   revision "prescan"   : src/unnamed/part_001, uploadFileMultipart      *)
(*                          first reads through a tee (bufferedMode), then *)
(*                          re-reads the body in streamMode or hands it to *)
(*                          uploadFileMultipartBuffered.                   *)
(*                                                                         *)
(* One behaviour is one HTTP request to one of the handlers (and, for      *)
(* multipart requests whose channel_id comes late, the same parts sent     *)
(* again with channel_id moved in front).  The multipart stream is read    *)
(* one part per step; a retrieval request looks the file up, decides, and  *)
(* copies the blob in separate steps.                                      *)
(***************************************************************************)
EXTENDS Integers, Sequences, FiniteSets, TLC

\* ------------------------------------------------------------------ bounds

\* Longest multipart stream, in parts.
MaxParts == 3

\* The number of times the client sends a retrieval request.
MaxRequests == 3

\* ------------------------------------------------------------ value domains

\* Channel ids that pass RequireChannelId (26 characters in the program).
ValidChannelIds == {"chA", "chB"}

\* Values the channel_id URL parameter takes: absent, valid, malformed.
UrlChannelIds == {"", "chA", "chB", "../../junk"}

\* Values a channel_id form field takes.
FormChannelIds == {"", "chA", "chB"}

\* Values a client_ids form field takes.
ClientIdValues == {"", "c1", "c2"}

\* Config().FileSettings.MaxFileSize, in units of file content.
MaxFileSize == 2

\* The size of the file of that name; only big.png is above MaxFileSize.
SizeOf(name) ==
    CASE name = "big.png" -> MaxFileSize + 1
      [] name = "f2.txt"  -> MaxFileSize
      [] name = ""        -> 0
      [] OTHER            -> 1

\* The names of the files a client sends.
FileNames == {"f1.png", "big.png", "f2.txt", "f0.txt"}

\* File names for which app.UploadFile returns an error: the file is larger
\* than MaxFileSize (file_test.go "Error file too large").
FailingNames == {n \in FileNames : SizeOf(n) > MaxFileSize}

\* "const maxValueBytes = 10 * 1024"
maxValueBytes == 10240

\* A client_ids value of maxValueBytes + 1 bytes, and its first
\* maxValueBytes bytes.
LongValue == "c3(10241 bytes)"

CutValue == "c3(10240 bytes)"

\* The length of a form value in bytes.
ValueBytes(v) ==
    CASE v = LongValue -> maxValueBytes + 1
      [] v = CutValue  -> maxValueBytes
      [] v = ""        -> 0
      [] OTHER         -> 2

\* io.CopyN(&b, p, n) followed by b.String(): the first n bytes of the
\* value.  A shorter value ends the copy with io.EOF, which the handler
\* lets pass; a longer one ends it with no error at all.
CopyN(v, n) == IF ValueBytes(v) > n THEN CutValue ELSE v

FieldPart(form, v) == [form |-> form, filename |-> "", value |-> v]

FilePart(form, name) == [form |-> form, filename |-> name, value |-> name]

\* The parts a client may put into a multipart stream.
PartAlphabet ==
    {FieldPart("channel_id", v) : v \in FormChannelIds}
      \cup {FieldPart("client_ids", v) : v \in ClientIdValues}
      \cup {FieldPart("client_ids", LongValue)}
      \cup {FieldPart("other", "x")}
      \cup {FilePart("files", "f1.png"), FilePart("files", "big.png"),
            FilePart("attachment", "f2.txt"), FilePart("", "f0.txt")}

PartSeqs == UNION {[1..n -> PartAlphabet] : n \in 0..MaxParts}

IsFile(p) == p.form # "" /\ p.filename # ""

IsField(p) == p.form # "" /\ p.filename = ""

\* What a part adds to the length of the body, in units of file content:
\* the content of a file; a form field and the framing are below one unit.
PartSize(p) == SizeOf(p.filename)

RECURSIVE BodySize(_)
\* The length of a multipart body.
BodySize(ps) == IF ps = <<>> THEN 0 ELSE PartSize(Head(ps)) + BodySize(Tail(ps))

\* ------------------------------------------------------------------- state

VARIABLES
    revision,              \* which uploadFileMultipart is built in
    EnableFileAttachments, \* Config().FileSettings.EnableFileAttachments
    DriverName,            \* Config().FileSettings.DriverName
    permitted,             \* channels where the session may upload
    multipart,             \* r.MultipartReader() succeeds
    reqErr,                \* the call that fails on this request, "" if none
    urlChannelId,          \* channel_id URL parameter
    urlFilename,           \* filename URL parameter
    parts,                 \* the multipart body, as its sequence of parts
    body,                  \* r.Body: the parts the running pass reads
    pc,                    \* position of the handler
    mode,                  \* uploadFileMultipartMode of the running pass
    pos,                   \* index of the part mr.NextPart() returns next
    buf,                   \* number of parts the tee has mirrored into buf
    ChannelId,             \* c.Params.ChannelId
    Err,                   \* c.Err as its status code, 0 for nil
    clientIds,             \* client_ids values collected so far
    expectClientIds,       \* part_001 local
    haveClientIds,         \* file.go local
    nFiles,                \* files uploaded by the running pass
    resp,                  \* the FileUploadResponse being filled in
    bufFiles,              \* form.File["files"] of the buffered pass
    uploads,               \* calls of app.UploadFile made for this request
    stored,                \* FileInfo rows (and blobs) in the stores
    written,               \* what the handler wrote to the ResponseWriter
    attempt,               \* 1, or 2 when the parts were sent again
    prev,                  \* outcome of attempt 1 once attempt 2 started
    handler,               \* the handler the request is routed to
    EnablePublicLink,      \* Config().FileSettings.EnablePublicLink
    Session,               \* c.Session
    FileId,                \* c.Params.FileId
    download,              \* r.URL.Query().Get("download")
    h,                     \* r.URL.Query().Get("h")
    info,                  \* the FileInfo the store holds under StoredId
    readers,               \* users with READ_CHANNEL on the post's channel
    blobs,                 \* paths the file backend can open
    opened,                \* paths passed to c.App.FileReader, in order
    header,                \* w.Header()
    wire,                  \* what has been sent to the client
    salt,                  \* Config().FileSettings.PublicLinkSalt
    round,                 \* how many times the request has been sent
    last                   \* the answer to the request sent before this one

reqVars == <<revision, EnableFileAttachments, DriverName, permitted,
             multipart, reqErr, urlChannelId, urlFilename>>

\* The request, store and response of a retrieval request.
getVars == <<handler, EnablePublicLink, Session, FileId, download, h, info,
             readers, blobs, opened, header, wire, salt, round, last>>

vars == <<revision, EnableFileAttachments, DriverName, permitted, multipart,
          reqErr, urlChannelId, urlFilename, parts, body, pc, mode, pos, buf, ChannelId, Err, clientIds,
          expectClientIds, haveClientIds, nFiles, resp, bufFiles, uploads,
          stored, written, attempt, prev, handler, EnablePublicLink, Session,
          FileId, download, h, info, readers, blobs, opened, header, wire,
          salt, round, last>>

streamMode == FALSE

bufferedMode == TRUE

StatusCreated == 201

StatusBadRequest == 400

StatusForbidden == 403

StatusRequestEntityTooLarge == 413

StatusInternalServerError == 500

StatusNotImplemented == 501

EmptyResponse == [FileInfos |-> <<>>, ClientIds |-> <<>>]

NothingWritten == [status |-> 0, FileInfos |-> <<>>, ClientIds |-> <<>>]

NoOutcome == [status |-> 0, names |-> <<>>, ClientIds |-> <<>>]

\* ----------------------------------------------------------------- helpers

\* c.RequireChannelId(): keeps an earlier error, else rejects a channel id
\* that is not a well-formed id.
RequireChannelId(err, ch) ==
    IF err # 0 THEN err
    ELSE IF ch \in ValidChannelIds THEN 0 ELSE StatusBadRequest

\* c.RequireFilename(): keeps an earlier error, else rejects an empty name.
RequireFilename(err, name) ==
    IF err # 0 THEN err
    ELSE IF name = "" THEN StatusBadRequest ELSE 0

\* c.App.SessionHasPermissionToChannel(c.Session, ch, PERMISSION_UPLOAD_FILE)
SessionHasPermissionToChannel(ch) == ch \in permitted

\* Mutant of ChannelStatus: the permission check is left out.
ChannelStatus_NoPermission(err, ch) == RequireChannelId(err, ch)

\* The channel checks made before a file is handed to app.UploadFile:
\* c.RequireChannelId(), then the upload permission on that channel.  The
\* result is the status of c.Err, 0 when both pass.
ChannelStatus(err, ch) ==
    IF RequireChannelId(err, ch) # 0 THEN RequireChannelId(err, ch)
    ELSE IF ~SessionHasPermissionToChannel(ch) THEN StatusForbidden
    ELSE 0

\* app.UploadFile's result for a file of this name: TRUE when it returns a
\* FileInfo, FALSE when it returns an AppError (no storage driver, or the
\* file is too large).
UploadFileOK(name) == DriverName # "" /\ name \notin FailingNames

\* The status of the AppError app.UploadFile returns.
UploadFileErr ==
    IF DriverName = "" THEN StatusNotImplemented
    ELSE StatusRequestEntityTooLarge

\* Mutant of UploadFailed: the AppError of app.UploadFile is not looked at.
UploadFailed_Ignored(name) == FALSE

\* Mutant of UploadFailed: only the error of a missing storage driver ends
\* the request.
UploadFailed_NoDriverOnly(name) == DriverName = ""

\* "if appErr != nil" after the call of app.UploadFile.
UploadFailed(name) == ~UploadFileOK(name)

\* The FileInfo app.UploadFile returns for the file part at index i.
NewFileInfo(i, name, ch, cid) ==
    [Id |-> Len(stored) + 1, Name |-> name, ChannelId |-> ch,
     ClientId |-> cid, part |-> i]

\* The call c.App.UploadFile(&app.UploadFileContext{...}): the call is
\* logged, and a successful one leaves a FileInfo row and its blob behind.
CallUploadFile(i, name, ch, cid) ==
    /\ uploads' = Append(uploads, [part |-> i, Name |-> name, ChannelId |-> ch,
                                   ClientId |-> cid, ok |-> UploadFileOK(name),
                                   mode |-> mode, pc |-> pc])
    /\ stored' = IF UploadFileOK(name)
                 THEN Append(stored, NewFileInfo(i, name, ch, cid))
                 ELSE stored

\* Mutant of WriteResponse: 201 and the response are written whatever c.Err.
WriteResponse_Always(err, r) ==
    [status |-> StatusCreated, FileInfos |-> r.FileInfos,
     ClientIds |-> r.ClientIds]

\* What uploadFileStream writes once the request is over: 201 and the
\* response when c.Err is nil, nothing otherwise.
WriteResponse(err, r) ==
    IF err = 0
    THEN [status |-> StatusCreated, FileInfos |-> r.FileInfos,
          ClientIds |-> r.ClientIds]
    ELSE written

\* The handler returns with c.Err = err and response r.
Return(err, r) ==
    /\ Err' = err
    /\ pc' = "done"
    /\ written' = WriteResponse(err, r)

\* form.Value[name] as mr.ReadForm collects it: the values of the fields of
\* that name, in stream order.
FormValue(ps, name) ==
    LET f == SelectSeq(ps, LAMBDA p : IsField(p) /\ p.form = name)
    IN  [i \in 1..Len(f) |-> f[i].value]

\* form.File[name] as mr.ReadForm collects it, as indexes into the stream.
FormFile(ps, name) ==
    SelectSeq([i \in 1..Len(ps) |-> i],
              LAMBDA i : IsFile(ps[i]) /\ ps[i].form = name)

\* ---------------------------------------------- retrieval: value domains

StatusOK == 200

StatusNotFound == 404

\* strings.HasPrefix
HasPrefix(s, prefix) ==
    Len(s) >= Len(prefix) /\ SubSeq(s, 1, Len(prefix)) = prefix

UNSAFE_CONTENT_TYPES ==
    <<"application/javascript", "application/ecmascript", "text/javascript",
      "text/ecmascript", "application/x-javascript", "text/html">>

MEDIA_CONTENT_TYPES ==
    <<"image/jpeg", "image/png", "image/bmp", "image/gif", "video/avi",
      "video/mpeg", "video/mp4", "audio/mpeg", "audio/wav">>

THUMBNAIL_IMAGE_TYPE == "image/jpeg"

PREVIEW_IMAGE_TYPE == "image/jpeg"

\* The retrieval handlers that need a session.
SessionHandlers ==
    {"getFile", "getFileThumbnail", "getFilePreview", "getFileInfo",
     "getFileLink"}

\* The handlers that answer with the bytes of a blob.
BodyHandlers ==
    {"getFile", "getFileThumbnail", "getFilePreview", "getPublicFile"}

\* The id of the one file in the store, and the user who uploaded it.
StoredId == "f1"

Creator == "u1"

\* The sessions: the creator, another user, a system admin.
Sessions ==
    {[UserId |-> Creator, admin |-> FALSE], [UserId |-> "u2", admin |-> FALSE],
     [UserId |-> "u3", admin |-> TRUE]}

\* getPublicFile is routed without a session.
NoSession == [UserId |-> "", admin |-> FALSE]

\* File ids a request names: malformed, well-formed but unknown, stored.
FileIds == {"junk", "nofile", StoredId}

\* Values of the download query parameter.
DownloadValues == {"", "true", "1", "false", "junk"}

\* Values of Config().FileSettings.PublicLinkSalt.
Salts == {"s1", "s2"}

\* app.GeneratePublicLinkHash(fileId, salt): a keyed hash of the file id,
\* different for different ids and for different salts.
GeneratePublicLinkHash(fileId, s) == "hash(" \o fileId \o ", " \o s \o ")"

\* Mutant of PublicLinkHash: the hash is made with a salt read once, not
\* with the salt the configuration holds now.
PublicLinkHash_FirstSalt == GeneratePublicLinkHash(info.Id, "s1")

\* app.GeneratePublicLinkHash(info.Id, PublicLinkSalt) for the stored file.
PublicLinkHash == GeneratePublicLinkHash(info.Id, salt)

\* c.App.GeneratePublicLink(siteURL, info): the URL of getPublicFile for the
\* file with the hash under the current salt as h.
GeneratePublicLink(i) ==
    "/files/" \o i.Id \o "/public?h=" \o GeneratePublicLinkHash(i.Id, salt)

\* Values of the h query parameter: absent, not a hash, the hash of the
\* stored file under each salt.
HashValues ==
    {"", "junk"} \cup {GeneratePublicLinkHash(StoredId, s) : s \in Salts}

\* MIME types a stored FileInfo carries.
MimeTypes ==
    {"", "image/png", "image/jpeg", "video/mp4", "audio/mpeg", "audio/mpegurl",
     "application/pdf", "text/plain", "text/html", "text/html; charset=utf-8",
     "application/javascript", "application/ecmascript", "text/javascript",
     "text/ecmascript", "application/x-javascript"}

\* The MIME types of the files app.UploadFile makes a thumbnail and a
\* preview for.
ImageTypes == {"image/png", "image/jpeg"}

\* A FileInfo row of StoredId; derived says whether it has a thumbnail and a
\* preview.
StoredInfo(post, mime, size, derived) ==
    [Id |-> StoredId, CreatorId |-> Creator, PostId |-> post,
     Name |-> "a b.png", MimeType |-> mime, Size |-> size,
     Path |-> "f1/data",
     ThumbnailPath |-> IF derived THEN "f1/thumb" ELSE "",
     PreviewPath |-> IF derived THEN "f1/preview" ELSE ""]

\* The FileInfo rows the store may hold for StoredId: attached to a post or
\* not, of any MIME type, with thumbnail and preview only for images.
FileInfos ==
    {StoredInfo(post, mime, size, FALSE) :
        post \in {"", "p1"}, mime \in MimeTypes, size \in {0, 3}}
      \cup {StoredInfo(post, mime, size, TRUE) :
              post \in {"", "p1"}, mime \in ImageTypes, size \in {0, 3}}

\* The paths of the blobs of a FileInfo.
BlobPaths(i) == {i.Path, i.ThumbnailPath, i.PreviewPath} \ {""}

HeaderNames ==
    {"Cache-Control", "X-Content-Type-Options", "Content-Length",
     "Content-Type", "Content-Disposition", "X-Frame-Options",
     "Content-Security-Policy"}

\* An http.Header with nothing set.
NoHeaders == [n \in HeaderNames |-> ""]

\* Nothing has gone to the client.
NothingSent == [status |-> 0, header |-> NoHeaders, body |-> ""]

\* No request was answered before this one.
NoAnswer == [Err |-> 0, status |-> 0, body |-> "", h |-> "", salt |-> ""]

\* The request is not a retrieval request.
NoRetrieval ==
    /\ EnablePublicLink = TRUE
    /\ Session = [UserId |-> Creator, admin |-> FALSE]
    /\ FileId = ""
    /\ download = ""
    /\ h = ""
    /\ info = StoredInfo("", "", 0, FALSE)
    /\ readers = {}
    /\ blobs = {}
    /\ opened = <<>>
    /\ header = NoHeaders
    /\ wire = NothingSent
    /\ salt = "s1"
    /\ round = 1
    /\ last = NoAnswer

\* -------------------------------------------------------------------- Init

InitUpload ==
    /\ handler = "uploadFileStream"
    /\ NoRetrieval
    /\ revision \in {"streaming", "prescan"}
    /\ EnableFileAttachments \in BOOLEAN
    /\ DriverName \in {"", "local"}
    /\ permitted \in {{"chA"}, {"chA", "chB"}}
    /\ multipart \in BOOLEAN
    /\ urlChannelId \in UrlChannelIds
    /\ IF multipart
       THEN urlFilename = "" /\ parts \in PartSeqs /\ reqErr = ""
       ELSE /\ urlFilename \in {"", "f1.png", "big.png"}
            /\ parts = <<>>
            /\ reqErr \in {"", "ParseForm", "MultipartReader"}
    /\ body = parts
    /\ pc = "start"
    /\ mode = streamMode
    /\ pos = 1
    /\ buf = 0
    /\ ChannelId = urlChannelId
    /\ Err = 0
    /\ clientIds = <<>>
    /\ expectClientIds = TRUE
    /\ haveClientIds = FALSE
    /\ nFiles = 0
    /\ resp = EmptyResponse
    /\ bufFiles = <<>>
    /\ uploads = <<>>
    /\ stored = <<>>
    /\ written = NothingWritten
    /\ attempt = 1
    /\ prev = NoOutcome

\* -------------------------------------------------------- uploadFileStream

loopVars == <<mode, pos, buf, ChannelId, clientIds, expectClientIds,
              haveClientIds, nFiles, resp, bufFiles>>

\* Mutant of AttachmentsDisabled: the wrong setting is tested.
AttachmentsDisabled_WrongSetting == DriverName = ""

\* "if !*c.App.Config().FileSettings.EnableFileAttachments"
AttachmentsDisabled == ~EnableFileAttachments

\* EnableFileAttachments is off: 501 before anything else.
uploadFileStream_Disabled ==
    /\ pc = "start"
    /\ AttachmentsDisabled
    /\ Return(StatusNotImplemented, EmptyResponse)
    /\ UNCHANGED <<reqVars, getVars, parts, body, loopVars, uploads, stored, attempt, prev>>

\* r.ContentLength: the length of the body as the request declares it.
ContentLength == IF multipart THEN BodySize(parts) ELSE SizeOf(urlFilename)

\* http.Error(w, err.Error(), code): the status and the error text are
\* written to the ResponseWriter, c.Err is not touched.
HttpError(code) == [status |-> code, FileInfos |-> <<>>, ClientIds |-> <<>>]

\* r.ParseForm() fails, or r.MultipartReader() fails with an error other than
\* http.ErrNotMultipart.  file.go answers with http.Error (400 and 500),
\* part_001 sets c.Err to a 400 AppError.
uploadFileStream_RequestError ==
    /\ pc = "start"
    /\ ~AttachmentsDisabled
    /\ reqErr # ""
    /\ IF revision = "streaming"
       THEN /\ Err' = Err
            /\ pc' = "done"
            /\ written' = HttpError(IF reqErr = "ParseForm"
                                    THEN StatusBadRequest
                                    ELSE StatusInternalServerError)
       ELSE Return(StatusBadRequest, EmptyResponse)
    /\ UNCHANGED <<reqVars, getVars, parts, body, loopVars, uploads, stored, attempt, prev>>

\* Mutant of SimpleStatus: the permission is checked before the parameters.
SimpleStatus_PermissionFirst(err, ch, name) ==
    IF ~SessionHasPermissionToChannel(ch) THEN StatusForbidden
    ELSE RequireFilename(RequireChannelId(err, ch), name)

\* The checks of the simple POST before app.UploadFile, as the status of
\* c.Err they leave: c.RequireChannelId() and c.RequireFilename(), a return
\* on c.Err, then the upload permission on the channel.
SimpleStatus(err, ch, name) ==
    IF RequireFilename(RequireChannelId(err, ch), name) # 0
    THEN RequireFilename(RequireChannelId(err, ch), name)
    ELSE IF ~SessionHasPermissionToChannel(ch) THEN StatusForbidden
    ELSE 0

\* Simple POST: the file is the body, the metadata are URL parameters.
uploadFileStream_Simple ==
    /\ pc = "start"
    /\ ~AttachmentsDisabled
    /\ ~multipart
    /\ reqErr = ""
    /\ LET e1 == SimpleStatus(Err, ChannelId, urlFilename)
       IN  IF e1 # 0
           THEN Return(e1, EmptyResponse) /\ UNCHANGED <<uploads, stored>>
           ELSE /\ CallUploadFile(0, urlFilename, ChannelId, "")
                /\ IF UploadFailed(urlFilename)
                   THEN Return(UploadFileErr, EmptyResponse)
                   ELSE Return(0, [FileInfos |->
                                     <<NewFileInfo(0, urlFilename, ChannelId, "")>>,
                                   ClientIds |-> <<>>])
    /\ UNCHANGED <<reqVars, getVars, parts, body, loopVars, attempt, prev>>

\* The request is multipart: enter uploadFileMultipart.  The prescan
\* revision starts in bufferedMode with an empty tee buffer.
uploadFileStream_Multipart ==
    /\ pc = "start"
    /\ ~AttachmentsDisabled
    /\ multipart
    /\ pc' = "loop"
    /\ mode' = IF revision = "prescan" THEN bufferedMode ELSE streamMode
    /\ pos' = 1
    /\ buf' = 0
    /\ clientIds' = <<>>
    /\ expectClientIds' = TRUE
    /\ haveClientIds' = FALSE
    /\ nFiles' = 0
    /\ resp' = EmptyResponse
    /\ UNCHANGED <<reqVars, getVars, parts, body, ChannelId, Err, bufFiles, uploads, stored,
                   written, attempt, prev>>

\* ------------------------------------- uploadFileMultipart, src/api4/file.go

\* The client id the streaming revision binds to the next file: the head of
\* the queue of collected client_ids, "" when the queue is empty.
HeadClientId(ids) == IF Len(ids) > 0 THEN Head(ids) ELSE ""

\* The queue after that file took its client id.
RestClientIds(ids) == IF Len(ids) > 0 THEN Tail(ids) ELSE ids

\* Mutant of StreamCountMismatch: the final count check is left out.
StreamCountMismatch_Never(have, ids) == FALSE

\* The final check of the streaming revision: client ids were sent and some
\* are left over.
StreamCountMismatch(have, ids) == have /\ Len(ids) # 0

\* A part without a form name is skipped.
Stream_SkipPart ==
    /\ revision = "streaming"
    /\ pc = "loop"
    /\ pos <= Len(parts)
    /\ parts[pos].form = ""
    /\ pos' = pos + 1
    /\ UNCHANGED <<reqVars, getVars, parts, body, pc, mode, buf, ChannelId, Err, clientIds,
                   expectClientIds, haveClientIds, nFiles, resp, bufFiles,
                   uploads, stored, written, attempt, prev>>

\* A form value: channel_id overrides c.Params.ChannelId when not empty,
\* client_ids is queued, any other name is an invalid parameter.
Stream_FormValue ==
    /\ revision = "streaming"
    /\ pc = "loop"
    /\ pos <= Len(parts)
    /\ IsField(parts[pos])
    /\ LET p == parts[pos]
           v == CopyN(p.value, maxValueBytes)
       IN  CASE p.form = "channel_id" ->
                  /\ ChannelId' = IF v # "" THEN v ELSE ChannelId
                  /\ pos' = pos + 1
                  /\ UNCHANGED <<pc, Err, written, clientIds, haveClientIds>>
             [] p.form = "client_ids" ->
                  /\ haveClientIds' = TRUE
                  /\ clientIds' = Append(clientIds, v)
                  /\ pos' = pos + 1
                  /\ UNCHANGED <<pc, Err, written, ChannelId>>
             [] OTHER ->
                  /\ Return(StatusBadRequest, EmptyResponse)
                  /\ UNCHANGED <<pos, ChannelId, clientIds, haveClientIds>>
    /\ UNCHANGED <<reqVars, getVars, parts, body, mode, buf, expectClientIds, nFiles, resp,
                   bufFiles, uploads, stored, attempt, prev>>

\* A file part: channel id and permission are checked, the file takes the
\* next client id, app.UploadFile is called and its FileInfo is appended.
Stream_FilePart ==
    /\ revision = "streaming"
    /\ pc = "loop"
    /\ pos <= Len(parts)
    /\ IsFile(parts[pos])
    /\ LET p        == parts[pos]
           e1       == ChannelStatus(Err, ChannelId)
           clientId == HeadClientId(clientIds)
           rest     == RestClientIds(clientIds)
       IN  IF e1 # 0
           THEN /\ Return(e1, EmptyResponse)
                /\ UNCHANGED <<pos, clientIds, nFiles, resp, uploads, stored>>
           ELSE IF haveClientIds /\ clientId = ""
           THEN /\ Return(StatusBadRequest, EmptyResponse)
                /\ clientIds' = rest
                /\ UNCHANGED <<pos, nFiles, resp, uploads, stored>>
           ELSE /\ clientIds' = rest
                /\ CallUploadFile(pos, p.filename, ChannelId, clientId)
                /\ IF UploadFailed(p.filename)
                   THEN /\ Return(UploadFileErr, EmptyResponse)
                        /\ UNCHANGED <<pos, nFiles, resp>>
                   ELSE /\ resp' =
                             [FileInfos |->
                                Append(resp.FileInfos,
                                       NewFileInfo(pos, p.filename, ChannelId,
                                                   clientId)),
                              ClientIds |->
                                IF haveClientIds
                                THEN Append(resp.ClientIds, clientId)
                                ELSE resp.ClientIds]
                        /\ nFiles' = nFiles + 1
                        /\ pos' = pos + 1
                        /\ UNCHANGED <<pc, Err, written>>
    /\ UNCHANGED <<reqVars, getVars, parts, body, mode, buf, ChannelId, expectClientIds,
                   haveClientIds, bufFiles, attempt, prev>>

\* End of the stream: the client id count is verified and the response
\* returned.
Stream_EOF ==
    /\ revision = "streaming"
    /\ pc = "loop"
    /\ pos > Len(parts)
    /\ IF StreamCountMismatch(haveClientIds, clientIds)
       THEN Return(StatusBadRequest, EmptyResponse)
       ELSE Return(Err, resp)
    /\ UNCHANGED <<reqVars, getVars, parts, body, loopVars, uploads, stored, attempt, prev>>

\* -------------------------------- uploadFileMultipart, src/unnamed/part_001

\* "If there's no clientIds when the first file comes, expect none later."
ExpectAtFile(expect, n, ids) ==
    IF n = 0 /\ Len(ids) = 0 THEN FALSE ELSE expect

\* The client id the prescan revision binds to the file number n (0-based).
ClientIdAt(expect, n, ids) == IF expect THEN ids[n + 1] ELSE ""

\* Mutant of RejectLateClientIds: a late client_ids field is accepted.
RejectLateClientIds_Never(expect) == FALSE

\* A client_ids field is refused once the first file came without any.
RejectLateClientIds(expect) == ~expect

\* The final check of the prescan revision.
PrescanCountMismatch(expect, ids, n) == expect /\ Len(ids) # n

\* Mutant of Mirror: the pass reads the body without a tee.
Mirror_Nothing(m, b) == b

\* The tee mirrors what the bufferedMode pass reads; a streamMode pass reads
\* without a tee.
Mirror(m, b) == IF m = bufferedMode THEN b + 1 ELSE b

\* io.MultiReader(buf, r.Body) on a body of which `read` parts were consumed
\* and `mirrored` parts are in buf: the mirrored parts, then the unread ones.
MultiReader(b, mirrored, read) ==
    SubSeq(b, 1, mirrored) \o SubSeq(b, read + 1, Len(b))

\* Mutant of RewindMode: the request is processed again in bufferedMode.
RewindMode_Buffered == bufferedMode

\* The mode in which uploadFileMultipart calls itself once it has read
\* channel_id in bufferedMode.
RewindMode == streamMode

\* A part without a form name is skipped.
Prescan_SkipPart ==
    /\ revision = "prescan"
    /\ pc = "loop"
    /\ pos <= Len(body)
    /\ body[pos].form = ""
    /\ pos' = pos + 1
    /\ buf' = Mirror(mode, buf)
    /\ UNCHANGED <<reqVars, getVars, parts, body, pc, mode, ChannelId, Err, clientIds,
                   expectClientIds, haveClientIds, nFiles, resp, bufFiles,
                   uploads, stored, written, attempt, prev>>

\* A form value.  channel_id read in bufferedMode ends the pre-scan: the
\* body is replaced by buf ++ rest and uploadFileMultipart runs again in
\* streamMode, from the first part and with fresh locals.
Prescan_FormValue ==
    /\ revision = "prescan"
    /\ pc = "loop"
    /\ pos <= Len(body)
    /\ IsField(body[pos])
    /\ LET p == body[pos]
           v == CopyN(p.value, maxValueBytes)
       IN  CASE p.form = "channel_id" ->
                  /\ ChannelId' = IF v # "" THEN v ELSE ChannelId
                  /\ IF mode = bufferedMode
                     THEN /\ mode' = RewindMode
                          /\ pos' = 1
                          /\ buf' = Mirror(mode, buf)
                          /\ clientIds' = <<>>
                          /\ expectClientIds' = TRUE
                          /\ nFiles' = 0
                          /\ resp' = EmptyResponse
                     ELSE /\ pos' = pos + 1
                          /\ UNCHANGED <<mode, buf, clientIds, expectClientIds,
                                         nFiles, resp>>
                  /\ UNCHANGED <<pc, Err, written>>
             [] p.form = "client_ids" ->
                  IF RejectLateClientIds(expectClientIds)
                  THEN /\ Return(StatusBadRequest, EmptyResponse)
                       /\ buf' = Mirror(mode, buf)
                       /\ UNCHANGED <<mode, pos, ChannelId, clientIds,
                                      expectClientIds, nFiles, resp>>
                  ELSE /\ clientIds' = Append(clientIds, v)
                       /\ pos' = pos + 1
                       /\ buf' = Mirror(mode, buf)
                       /\ UNCHANGED <<pc, Err, written, mode, ChannelId,
                                      expectClientIds, nFiles, resp>>
             [] OTHER ->
                  /\ Return(StatusBadRequest, EmptyResponse)
                  /\ buf' = Mirror(mode, buf)
                  /\ UNCHANGED <<mode, pos, ChannelId, clientIds,
                                 expectClientIds, nFiles, resp>>
    /\ body' = IF body[pos].form = "channel_id" /\ mode = bufferedMode
               THEN MultiReader(body, Mirror(mode, buf), pos)
               ELSE body
    /\ UNCHANGED <<reqVars, getVars, parts, haveClientIds, bufFiles, uploads,
                   stored, attempt, prev>>

\* A file part.  In bufferedMode with no channel id known the pre-scan gives
\* up streaming: the body is replaced by buf ++ rest and handed to
\* uploadFileMultipartBuffered.  Otherwise the file is uploaded as it
\* streams.
Prescan_FilePart ==
    /\ revision = "prescan"
    /\ pc = "loop"
    /\ pos <= Len(body)
    /\ IsFile(body[pos])
    /\ LET p        == body[pos]
           e1       == ChannelStatus(Err, ChannelId)
           expect   == ExpectAtFile(expectClientIds, nFiles, clientIds)
       IN  IF ChannelId = "" /\ mode = bufferedMode
           THEN /\ pc' = "buffered"
                /\ pos' = 1
                /\ buf' = Mirror(mode, buf)
                /\ UNCHANGED <<Err, written, expectClientIds, nFiles, resp,
                               uploads, stored>>
           ELSE IF e1 # 0
           THEN /\ Return(e1, EmptyResponse)
                /\ buf' = Mirror(mode, buf)
                /\ UNCHANGED <<pos, expectClientIds, nFiles, resp, uploads,
                               stored>>
           ELSE IF expect /\ nFiles >= Len(clientIds)
           THEN /\ Return(StatusBadRequest, EmptyResponse)
                /\ buf' = Mirror(mode, buf)
                /\ expectClientIds' = expect
                /\ UNCHANGED <<pos, nFiles, resp, uploads, stored>>
           ELSE LET clientId == ClientIdAt(expect, nFiles, clientIds)
                IN  /\ expectClientIds' = expect
                    /\ buf' = Mirror(mode, buf)
                    /\ CallUploadFile(pos, p.filename, ChannelId, clientId)
                    /\ IF UploadFailed(p.filename)
                       THEN /\ Return(UploadFileErr, EmptyResponse)
                            /\ UNCHANGED <<pos, nFiles, resp>>
                       ELSE /\ resp' =
                                 [FileInfos |->
                                    Append(resp.FileInfos,
                                           NewFileInfo(pos, p.filename,
                                                       ChannelId, clientId)),
                                  ClientIds |->
                                    IF expect
                                    THEN Append(resp.ClientIds, clientId)
                                    ELSE resp.ClientIds]
                            /\ nFiles' = nFiles + 1
                            /\ pos' = pos + 1
                            /\ UNCHANGED <<pc, Err, written>>
    /\ body' = IF ChannelId = "" /\ mode = bufferedMode
               THEN MultiReader(body, Mirror(mode, buf), pos)
               ELSE body
    /\ UNCHANGED <<reqVars, getVars, parts, mode, ChannelId, clientIds,
                   haveClientIds, bufFiles, attempt, prev>>

\* End of the stream: the client id count is verified and the response
\* returned.
Prescan_EOF ==
    /\ revision = "prescan"
    /\ pc = "loop"
    /\ pos > Len(body)
    /\ IF PrescanCountMismatch(expectClientIds, clientIds, nFiles)
       THEN Return(StatusBadRequest, EmptyResponse)
       ELSE Return(Err, resp)
    /\ UNCHANGED <<reqVars, getVars, parts, body, loopVars, uploads, stored, attempt, prev>>

\* ------------------------ uploadFileMultipartBuffered, src/unnamed/part_001

\* "Check that we have either no client IDs, or one per file."
BufferedCountMismatch(ids, files) ==
    Len(ids) # 0 /\ Len(ids) # Len(files)

\* The client id of the i-th (1-based) buffered file.
BufferedClientId(ids, i) == IF Len(ids) > 0 THEN ids[i] ELSE ""

\* resp.ClientIds after a buffered file with this client id was uploaded.
BufferedAppendClientId(cids, clientId) ==
    IF clientId # "" THEN Append(cids, clientId) ELSE cids

\* mr.ReadForm parses the whole body; channel_id is the first channel_id
\* value of the form, the files are those of the form name "files".
Buffered_ReadForm ==
    /\ pc = "buffered"
    /\ LET chs   == FormValue(body, "channel_id")
           ids   == FormValue(body, "client_ids")
           files == FormFile(body, "files")
       IN  IF Len(chs) = 0
           THEN /\ Return(StatusBadRequest, EmptyResponse)
                /\ UNCHANGED <<ChannelId, clientIds, bufFiles, resp, nFiles,
                               pos>>
           ELSE /\ ChannelId' = chs[1]
                /\ pos' = Len(body) + 1
                /\ IF ChannelStatus(Err, chs[1]) # 0
                   THEN /\ Return(ChannelStatus(Err, chs[1]), EmptyResponse)
                        /\ UNCHANGED <<clientIds, bufFiles, resp, nFiles>>
                   ELSE IF BufferedCountMismatch(ids, files)
                   THEN /\ Return(StatusBadRequest, EmptyResponse)
                        /\ clientIds' = ids
                        /\ bufFiles' = files
                        /\ UNCHANGED <<resp, nFiles>>
                   ELSE /\ clientIds' = ids
                        /\ bufFiles' = files
                        /\ resp' = EmptyResponse
                        /\ nFiles' = 0
                        /\ pc' = "bufferedFiles"
                        /\ UNCHANGED <<Err, written>>
    /\ UNCHANGED <<reqVars, getVars, parts, body, mode, buf, expectClientIds, haveClientIds,
                   uploads, stored, attempt, prev>>

\* One iteration of the loop over form.File["files"].
Buffered_UploadFile ==
    /\ pc = "bufferedFiles"
    /\ nFiles < Len(bufFiles)
    /\ LET i        == bufFiles[nFiles + 1]
           p        == body[i]
           clientId == BufferedClientId(clientIds, nFiles + 1)
       IN  /\ CallUploadFile(i, p.filename, ChannelId, clientId)
           /\ IF UploadFailed(p.filename)
              THEN /\ Return(UploadFileErr, EmptyResponse)
                   /\ UNCHANGED <<nFiles, resp>>
              ELSE /\ resp' =
                        [FileInfos |->
                           Append(resp.FileInfos,
                                  NewFileInfo(i, p.filename, ChannelId,
                                              clientId)),
                         ClientIds |->
                           BufferedAppendClientId(resp.ClientIds, clientId)]
                   /\ nFiles' = nFiles + 1
                   /\ UNCHANGED <<pc, Err, written>>
    /\ UNCHANGED <<reqVars, getVars, parts, body, mode, pos, buf, ChannelId, clientIds,
                   expectClientIds, haveClientIds, bufFiles, attempt, prev>>

\* The loop over form.File["files"] is over: the response is returned.
Buffered_Return ==
    /\ pc = "bufferedFiles"
    /\ nFiles = Len(bufFiles)
    /\ Return(Err, resp)
    /\ UNCHANGED <<reqVars, getVars, parts, body, loopVars, uploads, stored, attempt, prev>>

\* ------------------------------------------------------------- the client

\* What the client observes of a finished request.
Outcome ==
    [status    |-> IF Err = 0 THEN written.status ELSE Err,
     names     |-> [i \in 1..Len(written.FileInfos) |->
                      written.FileInfos[i].Name],
     ClientIds |-> written.ClientIds]

ChannelFields(ps) == {i \in 1..Len(ps) : IsField(ps[i]) /\ ps[i].form = "channel_id"}

FileIndexes(ps) == {i \in 1..Len(ps) : IsFile(ps[i])}

Min(S) == CHOOSE x \in S : \A y \in S : x <= y

\* The stream has exactly one channel_id field and it comes after the first
\* file part.
LateChannel(ps) ==
    /\ Cardinality(ChannelFields(ps)) = 1
    /\ FileIndexes(ps) # {}
    /\ Min(FileIndexes(ps)) < Min(ChannelFields(ps))

\* The same parts with the channel_id field moved in front of the first file
\* part.
ChannelFirst(ps) ==
    LET j == Min(ChannelFields(ps))
        k == Min(FileIndexes(ps))
    IN  SubSeq(ps, 1, k - 1) \o <<ps[j]>> \o SubSeq(ps, k, j - 1)
          \o SubSeq(ps, j + 1, Len(ps))

\* The client sends the parts of a finished late-channel_id request again,
\* channel_id first, as a new request to the same server.
SendAgainChannelFirst ==
    /\ handler = "uploadFileStream"
    /\ pc = "done"
    /\ attempt = 1
    /\ multipart
    /\ EnableFileAttachments
    /\ LateChannel(parts)
    /\ prev' = Outcome
    /\ attempt' = 2
    /\ parts' = ChannelFirst(parts)
    /\ body' = ChannelFirst(parts)
    /\ pc' = "start"
    /\ mode' = streamMode
    /\ pos' = 1
    /\ buf' = 0
    /\ ChannelId' = urlChannelId
    /\ Err' = 0
    /\ clientIds' = <<>>
    /\ expectClientIds' = TRUE
    /\ haveClientIds' = FALSE
    /\ nFiles' = 0
    /\ resp' = EmptyResponse
    /\ bufFiles' = <<>>
    /\ uploads' = <<>>
    /\ written' = NothingWritten
    /\ UNCHANGED <<reqVars, getVars, stored>>

\* ------------------------------------------------- the retrieval handlers

\* Everything of the upload handler but pc and c.Err.
uploadVars == <<reqVars, parts, body, loopVars, uploads, stored, written, attempt,
                prev>>

\* The request, the configuration and the stores of a retrieval request.
getReq == <<handler, EnablePublicLink, Session, FileId, download, h, info,
            readers, blobs, salt, round, last>>

\* The request is not an upload.
NoUpload ==
    /\ revision = "streaming"
    /\ EnableFileAttachments = TRUE
    /\ DriverName = "local"
    /\ permitted = {"chA"}
    /\ multipart = FALSE
    /\ reqErr = ""
    /\ urlChannelId = ""
    /\ urlFilename = ""
    /\ parts = <<>>
    /\ body = <<>>
    /\ mode = streamMode
    /\ pos = 1
    /\ buf = 0
    /\ ChannelId = ""
    /\ clientIds = <<>>
    /\ expectClientIds = TRUE
    /\ haveClientIds = FALSE
    /\ nFiles = 0
    /\ resp = EmptyResponse
    /\ bufFiles = <<>>
    /\ uploads = <<>>
    /\ stored = <<>>
    /\ written = NothingWritten
    /\ attempt = 1
    /\ prev = NoOutcome

\* A retrieval request arrives: the store holds one file, whose blobs the
\* backend has or has lost.  Each handler gets the inputs it reads.
InitGet ==
    /\ NoUpload
    /\ handler \in SessionHandlers \cup {"getPublicFile"}
    /\ pc = "get"
    /\ Err = 0
    /\ FileId \in FileIds
    /\ IF FileId = StoredId
       THEN /\ info \in FileInfos
            /\ blobs \in {{}, BlobPaths(info)}
       ELSE /\ info = StoredInfo("", "", 0, FALSE)
            /\ blobs = BlobPaths(info)
    /\ IF handler \in SessionHandlers
       THEN /\ Session \in Sessions
            /\ readers \in {{}, {"u2"}}
            /\ h = ""
       ELSE /\ Session = NoSession
            /\ readers = {}
            /\ h \in HashValues
    /\ EnablePublicLink \in
          (IF handler \in {"getFileLink", "getPublicFile"}
           THEN BOOLEAN ELSE {TRUE})
    /\ download \in
          (IF handler \in {"getFile", "getFileThumbnail", "getFilePreview"}
           THEN DownloadValues ELSE {""})
    /\ salt \in
          (IF handler \in {"getFileLink", "getPublicFile"}
           THEN Salts ELSE {"s1"})
    /\ round = 1
    /\ last = NoAnswer
    /\ opened = <<>>
    /\ header = NoHeaders
    /\ wire = NothingSent

\* c.RequireFileId(): keeps an earlier error, else rejects a file id that
\* is not a well-formed id.
RequireFileId(err, id) ==
    IF err # 0 THEN err
    ELSE IF id = "junk" THEN StatusBadRequest ELSE 0

\* forceDownload: strconv.ParseBool of the download parameter, false when
\* it does not parse.
ForceDownload(q) == q \in {"1", "t", "T", "TRUE", "true", "True"}

\* c.App.SessionHasPermissionToChannelByPost(c.Session, postId,
\* PERMISSION_READ_CHANNEL): a system admin has the permission everywhere,
\* any other user through the channel of the post.
SessionHasPermissionToChannelByPost(sess, postId) ==
    sess.admin \/ (postId # "" /\ sess.UserId \in readers)

\* Mutant of Authorized: the authorization check is left out.
Authorized_Always(i, sess) == TRUE

\* Mutant of Authorized: the creator is not looked at.
Authorized_PermissionOnly(i, sess) ==
    SessionHasPermissionToChannelByPost(sess, i.PostId)

\* The negation of "info.CreatorId != c.Session.UserId &&
\* !c.App.SessionHasPermissionToChannelByPost(...)".
Authorized(i, sess) ==
    ~(i.CreatorId # sess.UserId
        /\ ~SessionHasPermissionToChannelByPost(sess, i.PostId))

\* Mutant of ServedContentType: unsafe types are served as they are stored.
ServedContentType_NoRewrite(contentType) ==
    IF contentType = "" THEN "application/octet-stream" ELSE contentType

\* The Content-Type writeFileResponse serves for a content type it is given.
ServedContentType(contentType) ==
    IF contentType = "" THEN "application/octet-stream"
    ELSE IF \E k \in 1..Len(UNSAFE_CONTENT_TYPES) :
               HasPrefix(contentType, UNSAFE_CONTENT_TYPES[k])
         THEN "text/plain"
         ELSE contentType

\* isMediaType of writeFileResponse, for the content type it serves.
IsMediaType(contentType) ==
    \E k \in 1..Len(MEDIA_CONTENT_TYPES) :
        HasPrefix(contentType, MEDIA_CONTENT_TYPES[k])

\* toDownload of writeFileResponse.
ToDownload(forceDownload, contentType) ==
    IF forceDownload THEN TRUE ELSE ~IsMediaType(contentType)

\* url.PathEscape
PathEscape(name) == IF name = "a b.png" THEN "a%20b.png" ELSE name

\* strconv.Itoa(int(contentSize))
Itoa(n) == ToString(n)

\* Mutant of FileHeaders: Content-Length is set whatever contentSize is.
FileHeaders_AlwaysLength(filename, contentType, contentSize, forceDownload) ==
    [n \in HeaderNames |->
       CASE n = "Cache-Control" -> "max-age=2592000, private"
         [] n = "X-Content-Type-Options" -> "nosniff"
         [] n = "Content-Length" -> Itoa(contentSize)
         [] n = "Content-Type" -> ServedContentType(contentType)
         [] n = "Content-Disposition" ->
              (IF ToDownload(forceDownload, ServedContentType(contentType))
               THEN "attachment" ELSE "inline")
                \o ";filename=\"" \o PathEscape(filename)
                \o "\"; filename*=UTF-8''" \o PathEscape(filename)
         [] OTHER -> ""]

\* The headers writeFileResponse sets up to Content-Disposition.
FileHeaders(filename, contentType, contentSize, forceDownload) ==
    [n \in HeaderNames |->
       CASE n = "Cache-Control" -> "max-age=2592000, private"
         [] n = "X-Content-Type-Options" -> "nosniff"
         [] n = "Content-Length" ->
              IF contentSize > 0 THEN Itoa(contentSize) ELSE ""
         [] n = "Content-Type" -> ServedContentType(contentType)
         [] n = "Content-Disposition" ->
              (IF ToDownload(forceDownload, ServedContentType(contentType))
               THEN "attachment" ELSE "inline")
                \o ";filename=\"" \o PathEscape(filename)
                \o "\"; filename*=UTF-8''" \o PathEscape(filename)
         [] OTHER -> ""]

\* Mutant of writeFileResponse: the two frame headers are set after io.Copy.
writeFileResponse_FrameHeadersLate(filename, contentType, contentSize, forceDownload) ==
    FileHeaders(filename, contentType, contentSize, forceDownload)

\* w.Header() when writeFileResponse reaches io.Copy.
writeFileResponse(filename, contentType, contentSize, forceDownload) ==
    [FileHeaders(filename, contentType, contentSize, forceDownload)
       EXCEPT !["X-Frame-Options"] = "DENY",
              !["Content-Security-Policy"] = "Frame-ancestors 'none'"]

\* The handler returns with c.Err = err, nothing opened and nothing written.
Fail(err) ==
    /\ Err' = err
    /\ pc' = "done"
    /\ UNCHANGED <<opened, header, wire>>

\* c.App.FileReader(path), then writeFileResponse up to its io.Copy.  A blob
\* the backend cannot open ends the request with 404.
Serve(path, contentType, contentSize, forceDownload) ==
    /\ opened' = Append(opened, path)
    /\ IF path \notin blobs
       THEN /\ Err' = StatusNotFound
            /\ pc' = "done"
            /\ UNCHANGED <<header, wire>>
       ELSE /\ header' = writeFileResponse(info.Name, contentType,
                                           contentSize, forceDownload)
            /\ pc' = "copy"
            /\ UNCHANGED <<Err, wire>>

\* Mutant of EntryStatus: the file is looked up before the EnablePublicLink
\* setting is tested.
EntryStatus_LookupFirst(hd, id, enabled) ==
    IF RequireFileId(Err, id) # 0 THEN RequireFileId(Err, id)
    ELSE IF id # info.Id THEN StatusNotFound
    ELSE IF hd \in {"getFileLink", "getPublicFile"} /\ ~enabled
    THEN StatusNotImplemented
    ELSE 0

\* The status of the error a retrieval handler returns with before it has a
\* FileInfo, 0 when c.App.GetFileInfo gave it one.
EntryStatus(hd, id, enabled) ==
    IF RequireFileId(Err, id) # 0 THEN RequireFileId(Err, id)
    ELSE IF hd \in {"getFileLink", "getPublicFile"} /\ ~enabled
    THEN StatusNotImplemented
    ELSE IF id # info.Id THEN StatusNotFound
    ELSE 0

\* The start of every retrieval handler: c.RequireFileId(), for getFileLink
\* and getPublicFile the EnablePublicLink setting, then c.App.GetFileInfo.
GetFileInfo ==
    /\ pc = "get"
    /\ IF EntryStatus(handler, FileId, EnablePublicLink) # 0
       THEN Fail(EntryStatus(handler, FileId, EnablePublicLink))
       ELSE /\ pc' = "found"
            /\ UNCHANGED <<Err, opened, header, wire>>
    /\ UNCHANGED <<uploadVars, getReq>>

getFile ==
    /\ pc = "found"
    /\ handler = "getFile"
    /\ IF ~Authorized(info, Session)
       THEN Fail(StatusForbidden)
       ELSE Serve(info.Path, info.MimeType, info.Size,
                  ForceDownload(download))
    /\ UNCHANGED <<uploadVars, getReq>>

\* Mutant of DerivativeStatus: the path of the derivative is tested before
\* the authorization.
DerivativeStatus_PathFirst(i, sess, path) ==
    IF path = "" THEN StatusBadRequest
    ELSE IF ~Authorized(i, sess) THEN StatusForbidden
    ELSE 0

\* The checks getFileThumbnail and getFilePreview make on the FileInfo they
\* found, as the status of c.Err they leave: the authorization, then the
\* path of the thumbnail or preview.
DerivativeStatus(i, sess, path) ==
    IF ~Authorized(i, sess) THEN StatusForbidden
    ELSE IF path = "" THEN StatusBadRequest
    ELSE 0

getFileThumbnail ==
    /\ pc = "found"
    /\ handler = "getFileThumbnail"
    /\ IF DerivativeStatus(info, Session, info.ThumbnailPath) # 0
       THEN Fail(DerivativeStatus(info, Session, info.ThumbnailPath))
       ELSE Serve(info.ThumbnailPath, THUMBNAIL_IMAGE_TYPE, 0,
                  ForceDownload(download))
    /\ UNCHANGED <<uploadVars, getReq>>

getFilePreview ==
    /\ pc = "found"
    /\ handler = "getFilePreview"
    /\ IF DerivativeStatus(info, Session, info.PreviewPath) # 0
       THEN Fail(DerivativeStatus(info, Session, info.PreviewPath))
       ELSE Serve(info.PreviewPath, PREVIEW_IMAGE_TYPE, 0,
                  ForceDownload(download))
    /\ UNCHANGED <<uploadVars, getReq>>

\* w.Write(b) on a ResponseWriter nothing was written to: status 200 and
\* the headers set so far go out with the body.
Write(hdr, bytes) == [status |-> StatusOK, header |-> hdr, body |-> bytes]

getFileInfo ==
    /\ pc = "found"
    /\ handler = "getFileInfo"
    /\ IF ~Authorized(info, Session)
       THEN Fail(StatusForbidden)
       ELSE /\ header' = [header EXCEPT
                            !["Cache-Control"] = "max-age=2592000, public"]
            /\ wire' = Write(header', "info.ToJson()")
            /\ pc' = "done"
            /\ UNCHANGED <<Err, opened>>
    /\ UNCHANGED <<uploadVars, getReq>>

\* Mutant of NoPost: every file counts as attached.
NoPost_Never(i) == FALSE

\* "if len(info.PostId) == 0"
NoPost(i) == Len(i.PostId) = 0

getFileLink ==
    /\ pc = "found"
    /\ handler = "getFileLink"
    /\ IF ~Authorized(info, Session)
       THEN Fail(StatusForbidden)
       ELSE IF NoPost(info)
       THEN Fail(StatusBadRequest)
       ELSE /\ wire' = Write(header, GeneratePublicLink(info))
            /\ pc' = "done"
            /\ UNCHANGED <<Err, opened, header>>
    /\ UNCHANGED <<uploadVars, getReq>>

\* Mutant of ConstantTimeCompare: every hash compares equal.
ConstantTimeCompare_AlwaysEqual(x, y) == 1

\* subtle.ConstantTimeCompare(x, y): 1 when the byte strings are equal.
ConstantTimeCompare(x, y) == IF x = y THEN 1 ELSE 0

\* utils.RenderWebAppError: the error is rendered to the client.
RenderWebAppError(err) ==
    [status |-> err, header |-> header, body |-> "error page"]

\* getPublicFile does not return when c.App.FileReader fails: with a nil
\* reader the deferred fileReader.Close() panics, with a non-nil one the
\* handler goes on into writeFileResponse.
getPublicFile ==
    /\ pc = "found"
    /\ handler = "getPublicFile"
    /\ IF h = "" \/ ConstantTimeCompare(h, PublicLinkHash) # 1
       THEN /\ Err' = StatusBadRequest
            /\ wire' = RenderWebAppError(StatusBadRequest)
            /\ pc' = "done"
            /\ UNCHANGED <<opened, header>>
       ELSE /\ opened' = Append(opened, info.Path)
            /\ IF info.Path \notin blobs
               THEN /\ Err' = StatusNotFound
                    /\ \/ pc' = "panic" /\ UNCHANGED header
                       \/ /\ pc' = "copy"
                          /\ header' = writeFileResponse(info.Name,
                                          info.MimeType, info.Size, FALSE)
                    /\ UNCHANGED wire
               ELSE /\ header' = writeFileResponse(info.Name, info.MimeType,
                                                   info.Size, FALSE)
                    /\ pc' = "copy"
                    /\ UNCHANGED <<Err, wire>>
    /\ UNCHANGED <<uploadVars, getReq>>

\* Mutant of Input: the handler hands r.Body over where it should hand over
\* the part.
Input_Body(i) == "the request body"

\* Input of app.UploadFile: r.Body of a simple POST (i = 0), the part of a
\* multipart one.  The content of a file is written like its name.
Input(i) == IF i = 0 THEN urlFilename ELSE parts[i].value

\* model.NewId() of the FileInfo of a row.
FileIdOf(n) == "id" \o ToString(n)

\* mime.TypeByExtension(filepath.Ext(name))
TypeByExtension(name) ==
    CASE name \in {"f1.png", "big.png"} -> "image/png"
      [] name \in {"f2.txt", "f0.txt"}  -> "text/plain; charset=utf-8"
      [] OTHER                          -> ""

\* The path app.UploadFile writes the file of a row to.
UploadedPath(row) == FileIdOf(row.Id) \o "/" \o row.Name

\* The FileInfo app.UploadFile saved for a row: the session user is the
\* creator, no post yet, thumbnail and preview for an image.
UploadedInfo(row) ==
    [Id |-> FileIdOf(row.Id), CreatorId |-> Creator, PostId |-> "",
     Name |-> row.Name, MimeType |-> TypeByExtension(row.Name),
     Size |-> SizeOf(row.Name), Path |-> UploadedPath(row),
     ThumbnailPath |-> IF TypeByExtension(row.Name) \in ImageTypes
                       THEN FileIdOf(row.Id) \o "/thumb" ELSE "",
     PreviewPath |-> IF TypeByExtension(row.Name) \in ImageTypes
                     THEN FileIdOf(row.Id) \o "/preview" ELSE ""]

\* The rows of the uploads whose file was written to a path.
RowsAt(path) == {j \in 1..Len(stored) : UploadedPath(stored[j]) = path}

\* The bytes the reader of a path yields: for the file of an upload what
\* app.UploadFile was given as Input.
BlobBytes(path) ==
    IF path \notin blobs THEN ""
    ELSE IF RowsAt(path) # {}
    THEN "bytes of " \o Input(stored[CHOOSE j \in RowsAt(path) : TRUE].part)
    ELSE "bytes of " \o path

\* io.Copy(w, fileReader) at the end of writeFileResponse: the first byte
\* written sends status 200 and the headers as they are set by then.
writeFileResponse_Copy ==
    /\ pc = "copy"
    /\ wire' = IF BlobBytes(opened[Len(opened)]) # ""
               THEN Write(header, BlobBytes(opened[Len(opened)]))
               ELSE wire
    /\ pc' = "done"
    /\ UNCHANGED <<uploadVars, getReq, Err, opened, header>>

\* ------------------------------------------- the client of the retrieval

\* After an upload was answered 201, the uploader asks getFile for one of
\* the files of the response.
GetUploaded ==
    /\ handler = "uploadFileStream"
    /\ pc = "done"
    /\ written.status = StatusCreated
    /\ \E k \in 1..Len(written.FileInfos) :
          \E j \in 1..Len(stored) :
             /\ stored[j].Id = written.FileInfos[k].Id
             /\ FileId' = FileIdOf(written.FileInfos[k].Id)
             /\ info' = UploadedInfo(stored[j])
    /\ handler' = "getFile"
    /\ blobs' = UNION {BlobPaths(UploadedInfo(stored[j])) :
                         j \in 1..Len(stored)}
    /\ pc' = "get"
    /\ UNCHANGED <<uploadVars, Err, EnablePublicLink, Session, download, h,
                   readers, opened, header, wire, salt, round, last>>

\* The answer the client has received to the request that is over.
Answer ==
    [Err |-> Err, status |-> wire.status, body |-> wire.body, h |-> h,
     salt |-> salt]

\* The client sends the request it has an answer to once more.
NewRequest ==
    /\ pc = "done"
    /\ handler # "uploadFileStream"
    /\ round < MaxRequests
    /\ round' = round + 1
    /\ last' = Answer
    /\ pc' = "get"
    /\ Err' = 0
    /\ opened' = <<>>
    /\ header' = NoHeaders
    /\ wire' = NothingSent
    /\ UNCHANGED <<uploadVars, handler, EnablePublicLink, Session, FileId,
                   download, h, readers, blobs>>

\* The same public link is requested again, nothing else has changed.
SendAgain ==
    /\ handler = "getPublicFile"
    /\ NewRequest
    /\ UNCHANGED <<info, salt>>

\* th.App.UpdateConfig sets another PublicLinkSalt, then the same request
\* is sent again.
UpdateConfig_PublicLinkSalt ==
    /\ handler \in {"getFileLink", "getPublicFile"}
    /\ NewRequest
    /\ salt' \in Salts \ {salt}
    /\ UNCHANGED info

\* Store.FileInfo().AttachToPost(fileId, postId) for the stored file, then
\* the same request is sent again.
AttachToPost ==
    /\ handler \in SessionHandlers
    /\ FileId = info.Id
    /\ info.PostId = ""
    /\ NewRequest
    /\ info' = [info EXCEPT !.PostId = "p1"]
    /\ UNCHANGED salt

\* -------------------------------------------------------------------- Next

Init == InitUpload \/ InitGet

Next ==
    \/ uploadFileStream_Disabled
    \/ uploadFileStream_RequestError
    \/ uploadFileStream_Simple
    \/ uploadFileStream_Multipart
    \/ Stream_SkipPart
    \/ Stream_FormValue
    \/ Stream_FilePart
    \/ Stream_EOF
    \/ Prescan_SkipPart
    \/ Prescan_FormValue
    \/ Prescan_FilePart
    \/ Prescan_EOF
    \/ Buffered_ReadForm
    \/ Buffered_UploadFile
    \/ Buffered_Return
    \/ SendAgainChannelFirst
    \/ GetFileInfo
    \/ getFile
    \/ getFileThumbnail
    \/ getFilePreview
    \/ getFileInfo
    \/ getFileLink
    \/ getPublicFile
    \/ writeFileResponse_Copy
    \/ SendAgain
    \/ UpdateConfig_PublicLinkSalt
    \/ AttachToPost
    \/ GetUploaded

Spec == Init /\ [][Next]_vars

\* The steps of uploadFileMultipart and uploadFileMultipartBuffered.
uploadFileMultipart ==
    \/ Stream_SkipPart
    \/ Stream_FormValue
    \/ Stream_FilePart
    \/ Stream_EOF
    \/ Prescan_SkipPart
    \/ Prescan_FormValue
    \/ Prescan_FilePart
    \/ Prescan_EOF
    \/ Buffered_ReadForm
    \/ Buffered_UploadFile
    \/ Buffered_Return

\* The handler runs on its own goroutine and no step of it waits for
\* anything but the next part of a finite body: a step it can take, it takes.
FairSpec == Spec /\ WF_vars(uploadFileMultipart)

TypeOK ==
    /\ pc \in {"start", "loop", "buffered", "bufferedFiles", "done", "get",
              "found", "copy", "panic"}
    /\ Err \in {0, StatusBadRequest, StatusForbidden, StatusNotFound,
               StatusRequestEntityTooLarge, StatusNotImplemented}
    /\ handler \in SessionHandlers \cup {"getPublicFile", "uploadFileStream"}
    /\ info.PostId \in {"", "p1"}
    /\ info.Size \in 0..(MaxFileSize + 1)
    /\ wire.status \in {0, StatusOK, StatusBadRequest}
    /\ salt \in Salts
    /\ round \in 1..MaxRequests
    /\ last.status \in {0, StatusOK, StatusBadRequest}
    /\ written.status \in {0, StatusCreated, StatusBadRequest,
                          StatusInternalServerError}
    /\ Len(body) <= Len(parts)
    /\ pos \in 1..(Len(body) + 1)
    /\ attempt \in {1, 2}

\* ------------------------------------------------------------------ claims

ChannelOK(ch) == ch \in ValidChannelIds /\ ch \in permitted

\* The handler is about to decide on a file with the channel id it knows:
\* the simple POST, a file part read by the loop (unless the pre-scan defers
\* it to the buffered pass), or the buffered pass after mr.ReadForm.
FileAtHand ==
    \/ pc = "start" /\ ~AttachmentsDisabled /\ ~multipart /\ reqErr = ""
    \/ /\ pc = "loop"
       /\ pos <= Len(parts)
       /\ IsFile(parts[pos])
       /\ ~(revision = "prescan" /\ mode = bufferedMode /\ ChannelId = "")
    \/ pc = "buffered"

\* The channel id the handler knows at that moment.
KnownChannel ==
    IF pc = "buffered"
    THEN IF Len(FormValue(parts, "channel_id")) > 0
         THEN FormValue(parts, "channel_id")[1] ELSE ""
    ELSE ChannelId

\* C1: app.UploadFile is only ever called with the channel id known at that
\* moment, which is well-formed and on which the session has the upload
\* permission; and whenever the handler decides on a file while the channel
\* id it knows is malformed, missing or not permitted, that step ends the
\* request with 400 or 403 and uploads nothing.
C1_UploadOnlyToPermittedChannel ==
    [][ /\ Len(uploads') > Len(uploads) =>
             /\ uploads'[Len(uploads')].ChannelId = ChannelId'
             /\ ChannelOK(uploads'[Len(uploads')].ChannelId)
        /\ (FileAtHand /\ ~ChannelOK(KnownChannel)) =>
             /\ pc' = "done"
             /\ Err' \in {StatusBadRequest, StatusForbidden}
             /\ KnownChannel \notin ValidChannelIds => Err' = StatusBadRequest
             /\ UNCHANGED <<uploads, stored, written>> ]_vars

\* C1 witness: a multipart request uploaded a file and was then refused with
\* 403 at a later file, the channel id having changed in between.
C1_Witness ==
    /\ pc = "done"
    /\ multipart
    /\ Err = StatusForbidden
    /\ Len(uploads) > 0

\* C2 (as claimed): in the prescan revision, with a storage driver, no
\* channel_id in the URL and a permitted channel in the form, a multipart
\* request whose only channel_id field comes after the first file part has
\* the same outcome (status, file names in order, ClientIds) as the same
\* parts sent with channel_id moved in front of the first file part.
C2_LateChannelSameOutcome ==
    ( /\ revision = "prescan"
      /\ attempt = 2
      /\ pc = "done"
      /\ DriverName # ""
      /\ urlChannelId = ""
      /\ \A i \in ChannelFields(parts) : ChannelOK(parts[i].value) )
    => Outcome = prev

\* C3 (as claimed): every 201 response carries either no client ids or one
\* per FileInfo.
C3_ClientIdsNoneOrAll ==
    written.status = StatusCreated =>
        Len(written.ClientIds) \in {0, Len(written.FileInfos)}

\* C4 (as claimed): in a 201 response to a multipart request the FileInfos
\* are in stream order of their file parts, and when ClientIds is not empty
\* ClientIds[i] is the i-th client_ids value sent and is the client id of
\* FileInfos[i].
C4_ResponseOrder ==
    (written.status = StatusCreated /\ multipart) =>
        /\ \A i, j \in 1..Len(written.FileInfos) :
              i < j => written.FileInfos[i].part < written.FileInfos[j].part
        /\ \A i \in 1..Len(written.ClientIds) :
              /\ i <= Len(FormValue(parts, "client_ids"))
              /\ written.ClientIds[i] = FormValue(parts, "client_ids")[i]
              /\ i <= Len(written.FileInfos)
              /\ written.FileInfos[i].ClientId = written.ClientIds[i]

\* C5 (as claimed): a multipart request with at least one client_ids field
\* and a number of client_ids fields different from its number of file parts
\* is not answered with 201.
C5_CountMismatchFails ==
    ( /\ multipart
      /\ pc = "done"
      /\ Len(FormValue(parts, "client_ids")) > 0
      /\ Len(FormValue(parts, "client_ids")) # Cardinality(FileIndexes(parts)) )
    => (Err # 0 /\ written.status # StatusCreated)

\* The stream has a file part, no client_ids field before the first file
\* part and a client_ids field with a non-empty value after it.
LateClientIds(ps) ==
    /\ FileIndexes(ps) # {}
    /\ \A i \in 1..Len(ps) :
          (IsField(ps[i]) /\ ps[i].form = "client_ids")
             => i > Min(FileIndexes(ps))
    /\ \E i \in 1..Len(ps) :
          IsField(ps[i]) /\ ps[i].form = "client_ids" /\ ps[i].value # ""

Scenario2 ==
    /\ multipart
    /\ ~AttachmentsDisabled
    /\ DriverName # ""
    /\ attempt = 1
    /\ parts = <<FieldPart("channel_id", "chA"), FilePart("files", "f1.png"),
                 FieldPart("client_ids", "c1")>>

C8_UploadErrorFailsRequest ==
    (multipart /\ \E i \in 1..Len(uploads) : ~uploads[i].ok) =>
        /\ pc = "done"
        /\ Err = UploadFileErr
        /\ written = NothingWritten

\* C8 witness: a multipart request failed at its second uploaded file, the
\* first one having been uploaded successfully.
C8_Witness ==
    /\ multipart
    /\ pc = "done"
    /\ Len(uploads) >= 2
    /\ uploads[1].ok
    /\ ~uploads[Len(uploads)].ok

\* C9 (as claimed): a multipart request that failed leaves no stored file
\* behind.
C9_FailedRequestLeavesNothing ==
    (multipart /\ attempt = 1 /\ pc = "done" /\ Err # 0) => stored = <<>>

C11_ContentLengthRejected ==
    (pc = "done" /\ ContentLength > MaxFileSize)
        => written.status # StatusCreated

\* http.Error has written an error status.
HttpErrorWritten ==
    written.status \in {StatusBadRequest, StatusInternalServerError}

\* C12 (as claimed): a finished upload request has 201 written exactly when
\* c.Err is nil.
C12_CreatedIffErrNil ==
    (handler = "uploadFileStream" /\ pc = "done")
        => (written.status = StatusCreated <=> Err = 0)

\* C12 (amended): a finished upload request has 201 and the upload response
\* written exactly when c.Err is nil and the handler did not answer through
\* http.Error; nothing is written before the request is over, no response
\* body goes with anything but 201, and the body written with 201 is the
\* response object the handler built (one FileInfo for a simple POST).
C12_CreatedIffNoError ==
    /\ (handler = "uploadFileStream" /\ pc # "done")
          => written = NothingWritten
    /\ (handler = "uploadFileStream" /\ pc = "done") =>
          (written.status = StatusCreated <=> (Err = 0 /\ ~HttpErrorWritten))
    /\ written.status # StatusCreated =>
          (written.FileInfos = <<>> /\ written.ClientIds = <<>>)
    /\ (written.status = StatusCreated /\ multipart) =>
          (written.FileInfos = resp.FileInfos
             /\ written.ClientIds = resp.ClientIds)
    /\ (written.status = StatusCreated /\ ~multipart) =>
          Len(written.FileInfos) = 1

\* C12 witness: a multipart request ended with 201 and a response of one
\* FileInfo with its client id.
C12_Witness ==
    /\ pc = "done"
    /\ multipart
    /\ Err = 0
    /\ written.status = StatusCreated
    /\ Len(written.FileInfos) = 1
    /\ written.ClientIds = <<written.FileInfos[1].ClientId>>
    /\ written.FileInfos[1].ClientId # ""

\* C13 (as claimed): a multipart request with uploads enabled whose stream
\* ends without any file part ends with 400.
C13_NoFileBadRequest ==
    (multipart /\ pc = "done" /\ ~AttachmentsDisabled
       /\ FileIndexes(parts) = {})
        => (Err = StatusBadRequest /\ written.status # StatusCreated)

\* The form fields of the stream that are neither channel_id nor client_ids.
UnknownFields(ps) ==
    {i \in 1..Len(ps) :
        IsField(ps[i]) /\ ps[i].form \notin {"channel_id", "client_ids"}}

\* C14 (as claimed): a multipart request with an unknown form field is not
\* answered with 201, and no file part behind that field is uploaded.
C14_UnknownFieldRejected ==
    (multipart /\ pc = "done" /\ UnknownFields(parts) # {}) =>
        /\ Err # 0
        /\ written.status # StatusCreated
        /\ \A k \in 1..Len(uploads) :
              uploads[k].part < Min(UnknownFields(parts))

\* The form fields of the stream whose value is longer than maxValueBytes.
LongFields(ps) ==
    {i \in 1..Len(ps) :
        IsField(ps[i]) /\ ValueBytes(ps[i].value) > maxValueBytes}

\* C15 (as claimed): a multipart request with a form value longer than
\* 10 KiB is not answered with 201, and no file is uploaded under a client
\* id that is the value cut to 10 KiB.
C15_LongValueRejected ==
    /\ (multipart /\ pc = "done" /\ LongFields(parts) # {}) =>
          (Err # 0 /\ written.status # StatusCreated)
    /\ \A k \in 1..Len(uploads) :
          uploads[k].ok => uploads[k].ClientId # CutValue

\* ------------------------------------------------ retrieval: authorization

\* The session user is the creator of the file or may read the channel of
\* the post the file is attached to.
MayRead ==
    \/ info.CreatorId = Session.UserId
    \/ SessionHasPermissionToChannelByPost(Session, info.PostId)

\* The request has opened a blob, set a header or written to the client.
Served == opened # <<>> \/ header # NoHeaders \/ wire # NothingSent

\* What a step of an authenticated retrieval handler does about authorization.
AuthorizationStep ==
    handler \in SessionHandlers =>
        /\ (pc = "found" /\ ~MayRead) =>
              /\ Err' = StatusForbidden
              /\ pc' = "done"
              /\ UNCHANGED <<opened, header, wire>>
        /\ Served' => MayRead

\* C16: an authenticated retrieval handler that has found the file and whose
\* session user is neither the creator nor a reader of the post's channel
\* sets a 403 error, opens no blob, sets no header and writes nothing; so
\* whatever such a handler serves, it serves to a session that may read.
C16_OnlyAuthorizedServed == [][AuthorizationStep]_vars

\* A session that is neither the creator's nor a channel reader's nor an
\* admin's was refused a file whose blobs exist, and nothing was served.
C16_Witness ==
    /\ handler \in SessionHandlers
    /\ pc = "done"
    /\ info.PostId # ""
    /\ Session.UserId # info.CreatorId
    /\ ~Session.admin
    /\ Session.UserId \notin readers
    /\ blobs # {}
    /\ Err = StatusForbidden
    /\ ~Served

\* C17 as stated: for a file that is attached to no post, every session but
\* the creator's gets 403 from the authenticated retrieval handlers.
C17_UnattachedOnlyCreator ==
    [][(handler \in SessionHandlers /\ pc = "found" /\ info.PostId = ""
          /\ Session.UserId # info.CreatorId)
         => Err' = StatusForbidden]_vars

\* What the authorization step does for a file that is attached to no post.
UnattachedStep ==
    (handler \in SessionHandlers /\ pc = "found" /\ info.PostId = "") =>
        /\ Err' = StatusForbidden <=>
              (Session.UserId # info.CreatorId /\ ~Session.admin)
        /\ Err' = StatusForbidden => UNCHANGED <<opened, header, wire>>

\* C17: for a file that is attached to no post, the authenticated retrieval
\* handlers answer 403 exactly to the sessions that are neither the
\* creator's nor a system admin's, and open no blob and write nothing for
\* them.
C17_UnattachedCreatorOrAdmin == [][UnattachedStep]_vars

\* A system admin who is not the creator was sent the bytes of a file that
\* is attached to no post.
C17_Witness ==
    /\ handler = "getFile"
    /\ pc = "done"
    /\ info.PostId = ""
    /\ Session.admin
    /\ Session.UserId # info.CreatorId
    /\ Err = 0
    /\ wire.status = StatusOK
    /\ wire.body = BlobBytes(info.Path)
    /\ wire.body # ""

\* ------------------------------------------------ retrieval: file responses

\* The client has been sent bytes of a blob.
BodySent ==
    /\ handler \in BodyHandlers
    /\ wire.status = StatusOK
    /\ wire.body # ""

\* The content type matches one of the unsafe types.
Unsafe(contentType) ==
    \E k \in 1..Len(UNSAFE_CONTENT_TYPES) :
        HasPrefix(contentType, UNSAFE_CONTENT_TYPES[k])

\* The response was sent with Content-Disposition inline.
Inline == HasPrefix(wire.header["Content-Disposition"], "inline;")

\* C18: in every response that carries blob bytes, a stored MIME type that
\* matches an unsafe type went out as text/plain and not inline, and an
\* empty stored type went out as application/octet-stream.
C18_UnsafeTypesNeutralised ==
    BodySent =>
        /\ Unsafe(info.MimeType) =>
              (wire.header["Content-Type"] = "text/plain" /\ ~Inline)
        /\ (info.MimeType = "" /\ handler \in {"getFile", "getPublicFile"})
              => wire.header["Content-Type"] = "application/octet-stream"

\* An HTML file with a charset parameter was sent as text/plain attachment
\* although no download was asked for.
C18_Witness ==
    /\ BodySent
    /\ handler = "getFile"
    /\ info.MimeType = "text/html; charset=utf-8"
    /\ ~ForceDownload(download)
    /\ wire.header["Content-Type"] = "text/plain"
    /\ HasPrefix(wire.header["Content-Disposition"], "attachment;")

\* The allowed-media list as a set.
AllowedMedia ==
    {MEDIA_CONTENT_TYPES[k] : k \in 1..Len(MEDIA_CONTENT_TYPES)}

\* The download flag of the request is set.
DownloadSet == handler # "getPublicFile" /\ ForceDownload(download)

\* C19: a response that carries blob bytes is inline exactly when the
\* download flag is not set and the served content type is one of the
\* allowed media types, and is attachment otherwise.
C19_InlineIffAllowedMedia ==
    BodySent =>
        /\ Inline <=>
              (~DownloadSet /\ wire.header["Content-Type"] \in AllowedMedia)
        /\ ~Inline =>
              HasPrefix(wire.header["Content-Disposition"], "attachment;")

\* C20: whenever blob bytes are about to be copied or have been copied to
\* the client, the four security headers have their values.
C20_SecurityHeadersBeforeBody ==
    /\ (pc = "copy") =>
          /\ header["Cache-Control"] = "max-age=2592000, private"
          /\ header["X-Content-Type-Options"] = "nosniff"
          /\ header["X-Frame-Options"] = "DENY"
          /\ header["Content-Security-Policy"] = "Frame-ancestors 'none'"
    /\ BodySent =>
          /\ wire.header["Cache-Control"] = "max-age=2592000, private"
          /\ wire.header["X-Content-Type-Options"] = "nosniff"
          /\ wire.header["X-Frame-Options"] = "DENY"
          /\ wire.header["Content-Security-Policy"] = "Frame-ancestors 'none'"

\* A public link was answered with the bytes of the file under the four
\* headers.
C20_Witness ==
    /\ BodySent
    /\ handler = "getPublicFile"
    /\ wire.body = BlobBytes(info.Path)
    /\ wire.header["X-Frame-Options"] = "DENY"
    /\ wire.header["Content-Security-Policy"] = "Frame-ancestors 'none'"
    /\ wire.header["Cache-Control"] = "max-age=2592000, private"
    /\ wire.header["X-Content-Type-Options"] = "nosniff"

\* ----------------------------------------------- retrieval: public links

\* The h parameter is the hash of the requested file under the current salt.
ValidHash == h # "" /\ h = GeneratePublicLinkHash(FileId, salt)

\* What a step of getPublicFile does about the link hash.
PublicLinkStep ==
    handler = "getPublicFile" =>
        /\ (pc = "found" /\ ~ValidHash) =>
              /\ Err' = StatusBadRequest
              /\ pc' = "done"
              /\ wire'.status = StatusBadRequest
              /\ wire'.body = "error page"
              /\ UNCHANGED <<opened, header>>
        /\ BodySent' => (EnablePublicLink /\ ValidHash)

\* C21: getPublicFile answers an absent or non-matching h with 400 and the
\* rendered error page, opening no blob, and sends file bytes only with
\* public links enabled and an h that is the hash of the file id under the
\* current salt.
C21_PublicFileNeedsValidHash == [][PublicLinkStep]_vars

\* A request with something that is not the hash of the file, whose blob
\* exists, was answered 400 with the error page.
C21_Witness ==
    /\ handler = "getPublicFile"
    /\ pc = "done"
    /\ EnablePublicLink
    /\ FileId = info.Id
    /\ h = "junk"
    /\ blobs # {}
    /\ Err = StatusBadRequest
    /\ wire.status = StatusBadRequest
    /\ wire.body = "error page"
    /\ opened = <<>>

\* The h parameter is the hash of the requested file under a salt that is
\* not the current one: the link was issued before the salt was changed.
StaleLink ==
    \E s1 \in Salts : s1 # salt /\ h = GeneratePublicLinkHash(FileId, s1)

\* C22: every request of getPublicFile for a stored file with the hash made
\* under a salt other than the current one ends with 400 and no file bytes,
\* however often it is sent.
C22_RotatedSaltRejectsLink ==
    (handler = "getPublicFile" /\ pc = "done" /\ EnablePublicLink
       /\ FileId = info.Id /\ StaleLink)
        => (Err = StatusBadRequest /\ wire.status = StatusBadRequest
              /\ opened = <<>>)

\* A link was answered with the file, the salt was changed, and the same
\* link has now been answered 400.
C22_Witness ==
    /\ handler = "getPublicFile"
    /\ pc = "done"
    /\ round > 1
    /\ last.h = h
    /\ last.salt # salt
    /\ last.status = StatusOK
    /\ last.body = BlobBytes(info.Path)
    /\ StaleLink
    /\ Err = StatusBadRequest
    /\ wire.body = "error page"

\* What a step of getFileLink or getPublicFile does with public links off.
DisabledLinkStep ==
    (handler \in {"getFileLink", "getPublicFile"} /\ pc = "get"
       /\ ~EnablePublicLink /\ FileId # "junk") =>
        /\ Err' = StatusNotImplemented
        /\ pc' = "done"
        /\ UNCHANGED <<opened, header, wire>>

\* C23: with EnablePublicLink off, getFileLink and getPublicFile answer
\* every well-formed file id with 501 and nothing else: an unknown file, a
\* session that may not read, a file attached to no post and a wrong hash
\* all get 501.
C23_DisabledLinkFirst == [][DisabledLinkStep]_vars

\* With public links off an unknown file id got 501 from getPublicFile, or
\* a user who may not read an unattached file got 501 from getFileLink.
C23_Witness ==
    /\ ~EnablePublicLink
    /\ pc = "done"
    /\ Err = StatusNotImplemented
    /\ wire = NothingSent
    /\ \/ handler = "getPublicFile" /\ FileId = "nofile" /\ h = "junk"
       \/ /\ handler = "getFileLink"
          /\ FileId = info.Id
          /\ info.PostId = ""
          /\ ~MayRead

\* What getFileLink does for a session that may read the file.
FileLinkStep ==
    (handler = "getFileLink" /\ pc = "found" /\ MayRead) =>
        /\ info.PostId = "" =>
              /\ Err' = StatusBadRequest
              /\ pc' = "done"
              /\ UNCHANGED <<opened, header, wire>>
        /\ info.PostId # "" =>
              /\ Err' = 0
              /\ pc' = "done"
              /\ wire'.status = StatusOK
              /\ wire'.body = GeneratePublicLink(info)
              /\ wire'.body # ""

\* C24: getFileLink answers 400 for a file attached to no post, also to
\* its creator, and for an attached file writes a non-empty link to every
\* session that may read it.
C24_LinkOnlyForAttachedFile == [][FileLinkStep]_vars

\* The creator was refused the link of an unattached file with 400, the
\* file was attached, and the same request got the link.
C24_Witness ==
    /\ handler = "getFileLink"
    /\ pc = "done"
    /\ Session.UserId = info.CreatorId
    /\ round > 1
    /\ last.Err = StatusBadRequest
    /\ last.body = ""
    /\ last.salt = salt
    /\ info.PostId # ""
    /\ Err = 0
    /\ wire.status = StatusOK
    /\ wire.body = GeneratePublicLink(info)

\* ------------------------------------------------ retrieval: missing blobs

\* c.App.FileReader has failed for the path the handler asked for.
OpenFailed == opened # <<>> /\ opened[Len(opened)] \notin blobs

\* C25: once opening the blob has failed, a handler that serves blob bytes
\* is over with 404, having set no response header, not used the reader and
\* written nothing.
C25_MissingBlobNotFound ==
    (handler \in BodyHandlers /\ OpenFailed) =>
        /\ pc = "done"
        /\ Err = StatusNotFound
        /\ header = NoHeaders
        /\ wire = NothingSent

\* ------------------------------------------------- upload, then retrieval

\* The files of the upload response that have the requested id.
Returned ==
    {k \in 1..Len(written.FileInfos) :
        FileIdOf(written.FileInfos[k].Id) = FileId}

\* The bytes the client sent for the file of the k-th FileInfo of the
\* response.
SentBytes(k) ==
    "bytes of " \o (IF multipart
                    THEN parts[written.FileInfos[k].part].value
                    ELSE urlFilename)

TooLarge == {k \in 1..Len(uploads) : SizeOf(uploads[k].Name) > MaxFileSize}

ThroughTee(u) == u.mode = bufferedMode /\ u.pc = "loop"

RECURSIVE MirroredFileBytes(_)
\* The file content the tee has mirrored into buf for the stored files
\* among these calls.
MirroredFileBytes(us) ==
    IF us = <<>> THEN 0
    ELSE (IF ThroughTee(Head(us)) /\ Head(us).ok
          THEN SizeOf(Head(us).Name) ELSE 0)
           + MirroredFileBytes(Tail(us))

\* C28: the pre-scan buffer never holds more than MaxFileSize, and no file
\* is handed to storage through the tee: once the channel id is known file
\* parts are streamed without being mirrored.
C28_PrescanBufferBounded ==
    revision = "prescan" =>
        /\ MirroredFileBytes(uploads) <= MaxFileSize
        /\ \A k \in 1..Len(uploads) :
              (uploads[k].ok /\ uploads[k].ChannelId # "")
                  => ~ThroughTee(uploads[k])

\* ------------------------------------------------- upload: one call a part

\* C30: in one request no file part is passed to app.UploadFile twice.
C30_EachPartUploadedOnce ==
    \A k1, k2 \in 1..Len(uploads) :
        uploads[k1].part = uploads[k2].part => k1 = k2

\* A step by which the pre-scan rewinds: the bufferedMode pass hands the
\* request over to a streamMode pass or to uploadFileMultipartBuffered.
RewindStep ==
    /\ revision = "prescan"
    /\ pc = "loop"
    /\ mode = bufferedMode
    /\ (mode' = streamMode \/ pc' = "buffered")

C31_Step == RewindStep => (body' = parts /\ pos' = 1)

\* C31: when the pre-scan rewinds, the stream handed to the second pass (the
\* parts mirrored into buf, then the parts not yet read) is the original
\* sequence of parts, and the second pass starts at its first part.
C31_RewindRestoresBody == [][C31_Step]_vars

\* C31 witness: a second pass is running over a rewound body that was put
\* together from two mirrored parts and a part never read by the pre-scan.
C31_Witness ==
    /\ revision = "prescan"
    /\ pc = "loop"
    /\ mode = streamMode
    /\ buf = 2
    /\ Len(parts) = 3
    /\ body = parts

\* C32: all files uploaded by one multipart request go to the same channel:
\* every call of app.UploadFile made for the request has the same ChannelId.
C32_OneChannelPerRequest ==
    (handler = "uploadFileStream" /\ multipart) =>
        \A j, k \in 1..Len(uploads) :
            uploads[j].ChannelId = uploads[k].ChannelId

\* The channel id known once the channel_id form values vs were taken in
\* stream order, starting from the channel id ch: a non-empty value replaces
\* it, an empty value leaves it as it is.
RECURSIVE ChannelAfter(_, _)

ChannelAfter(ch, vs) ==
    IF vs = <<>>
    THEN ch
    ELSE ChannelAfter(IF Head(vs) # "" THEN Head(vs) ELSE ch, Tail(vs))

C33_Step ==
    (handler = "uploadFileStream" /\ multipart) =>
        /\ ( /\ pc = "loop"
             /\ pos <= Len(body)
             /\ IsField(body[pos])
             /\ body[pos].form = "channel_id" ) =>
               ChannelId' = ChannelAfter(ChannelId, <<body[pos].value>>)
        /\ pc = "buffered" =>
               ChannelId' =
                   ChannelAfter(ChannelId, FormValue(body, "channel_id"))

\* C33: a pass that takes channel_id form values leaves c.Params.ChannelId at
\* the last non-empty one of them, and where it was when all are empty.
C33_FormChannelIdReplaces == [][C33_Step]_vars

\* C34: of a finished multipart request only parts that carry a filename
\* were uploaded as files, and when the request succeeded every part that
\* carries a filename has its FileInfo in the response.
C34_FilenameDecidesFile ==
    (handler = "uploadFileStream" /\ multipart /\ pc = "done") =>
        /\ \A k \in 1..Len(uploads) : parts[uploads[k].part].filename # ""
        /\ (Err = 0 /\ written.status = StatusCreated) =>
              \A i \in 1..Len(parts) :
                  parts[i].filename # "" =>
                      \E k \in 1..Len(written.FileInfos) :
                          written.FileInfos[k].part = i

\* C35: a finished simple POST whose form and multipart probes raised no
\* error answers 501 when attachments are off, else 400 when channel_id is
\* malformed or filename empty (whatever the permission), else 403 when the
\* session has no upload permission on the channel, and calls app.UploadFile
\* once only when all three checks passed.
C35_SimpleCheckOrder ==
    (handler = "uploadFileStream" /\ ~multipart /\ reqErr = "" /\ pc = "done")
    =>
    LET wellFormed == urlChannelId \in ValidChannelIds /\ urlFilename # ""
    IN  /\ ~EnableFileAttachments =>
              (Err = StatusNotImplemented /\ uploads = <<>>)
        /\ (EnableFileAttachments /\ ~wellFormed) =>
              (Err = StatusBadRequest /\ uploads = <<>>)
        /\ (EnableFileAttachments /\ wellFormed
              /\ urlChannelId \notin permitted) =>
              (Err = StatusForbidden /\ uploads = <<>>)
        /\ (EnableFileAttachments /\ wellFormed
              /\ urlChannelId \in permitted) =>
              Len(uploads) = 1

\* C35 witness: a simple POST without a filename, to a channel the session
\* may not upload to, was answered 400.
C35_Witness ==
    /\ handler = "uploadFileStream"
    /\ ~multipart
    /\ reqErr = ""
    /\ pc = "done"
    /\ EnableFileAttachments
    /\ urlChannelId = "chB"
    /\ urlChannelId \notin permitted
    /\ urlFilename = ""
    /\ Err = StatusBadRequest
    /\ uploads = <<>>

\* The path of the blob getFileThumbnail or getFilePreview serves.
DerivativePath ==
    IF handler = "getFileThumbnail" THEN info.ThumbnailPath
    ELSE info.PreviewPath

\* C36: getFileThumbnail and getFilePreview, once past the lookup, answer in
\* this order: 400 for a malformed file id, 404 for a file id the store does
\* not know, 403 for a session that may not read the file (whether the file
\* has a thumbnail or preview or not, and with no blob opened), 400 for an
\* empty thumbnail or preview path, 404 for a blob that cannot be opened.
C36_DerivativeCheckOrder ==
    (handler \in {"getFileThumbnail", "getFilePreview"}
       /\ pc \in {"copy", "done"})
    =>
    IF FileId = "junk" THEN Err = StatusBadRequest /\ opened = <<>>
    ELSE IF FileId # info.Id THEN Err = StatusNotFound /\ opened = <<>>
    ELSE IF ~MayRead THEN Err = StatusForbidden /\ opened = <<>>
    ELSE IF DerivativePath = "" THEN Err = StatusBadRequest /\ opened = <<>>
    ELSE IF DerivativePath \notin blobs
    THEN Err = StatusNotFound /\ opened = <<DerivativePath>>
    ELSE Err = 0 /\ opened = <<DerivativePath>>

\* C36 witness: a session that may not read a file without a thumbnail was
\* answered 403 by getFileThumbnail.
C36_Witness ==
    /\ handler = "getFileThumbnail"
    /\ pc = "done"
    /\ FileId = info.Id
    /\ ~MayRead
    /\ info.ThumbnailPath = ""
    /\ Err = StatusForbidden
    /\ opened = <<>>

\* getFile or getPublicFile has gone through the headers of
\* writeFileResponse: the blob served is the stored file, of size info.Size.
FileHeadersSet ==
    handler \in {"getFile", "getPublicFile"} /\ header # NoHeaders

\* C37 as stated: the response for a stored file carries Content-Length
\* equal to FileInfo.Size, a file of size 0 included.
C37_ContentLengthWhenKnown ==
    FileHeadersSet => header["Content-Length"] = ToString(info.Size)

\* C37: the response for a stored file carries Content-Length equal to
\* FileInfo.Size when that size is above 0, and no Content-Length when it
\* is 0.
C37_ContentLengthWhenPositive ==
    FileHeadersSet =>
        header["Content-Length"] =
            IF info.Size > 0 THEN ToString(info.Size) ELSE ""

\* C37 witness: getFile has answered for a stored file of size 0 without a
\* Content-Length header.
C37_Witness ==
    /\ handler = "getFile"
    /\ pc = "done"
    /\ Err = 0
    /\ info.Size = 0
    /\ header # NoHeaders
    /\ header["Content-Length"] = ""

\* The pre-scan of the prescan revision is reading parts.
InPrescan == revision = "prescan" /\ pc = "loop" /\ mode = bufferedMode

\* The pre-scan has handed the request over to the streamMode pass or to
\* uploadFileMultipartBuffered.
HandedOver ==
    /\ revision = "prescan"
    /\ \/ pc = "loop" /\ mode = streamMode
       \/ pc \in {"buffered", "bufferedFiles"}

\* uploadFileMultipart is at work on a multipart request.
InMultipart ==
    /\ handler = "uploadFileStream"
    /\ multipart
    /\ pc \in {"loop", "buffered", "bufferedFiles"}

\* uploadFileMultipart has returned with a response or with an error.
MultipartDone ==
    /\ handler = "uploadFileStream"
    /\ pc = "done"
    /\ (Err # 0 \/ written.status = StatusCreated)

\* The pre-scan only moves forward through the parts, and once it has handed
\* the request over no pass of that request is a pre-scan again.
C38_Step ==
    /\ (InPrescan /\ InPrescan') => pos' = pos + 1
    /\ HandedOver => ~InPrescan'
    /\ (pc \in {"buffered", "bufferedFiles"}) => pc' # "loop"

\* C38: uploadFileMultipart returns with a response or an error on every
\* finite sequence of parts; the pre-scan hands over at most once and
\* the pass it hands over to never goes back to the pre-scan.
C38_MultipartTerminates ==
    /\ [][C38_Step]_vars
    /\ InMultipart ~> MultipartDone

\* C38 witness: uploadFileMultipart has returned a response after the
\* pre-scan handed the request over to the streamMode pass.
C38_Witness ==
    /\ revision = "prescan"
    /\ handler = "uploadFileStream"
    /\ multipart
    /\ pc = "done"
    /\ mode = streamMode
    /\ buf > 0
    /\ Len(parts) = 3
    /\ written.status = StatusCreated

====
